---- MODULE Spec2Model ----
(***************************************************************************)
(* The duplicate-detection engine of the work item form extension          *)
(* (class duplicateObserver): the debounced trigger, the detection pass    *)
(* validateWorkItem, the chunk evaluations validateWorkItemChunk with the  *)
(* retrying fetch, the aggregator getfirstResolvedPromise and the text     *)
(* normalisation.  Line numbers refer to src/unnamed/part_000, the current *)
(* version of block-duplicate-observer.ts.                                 *)
(*                                                                         *)
(* JavaScript runs one task at a time: an action of this module is one     *)
(* task together with the promise reactions (microtasks) it triggers, up   *)
(* to the next point where the code waits for the host, the network or a   *)
(* timer.  A text is a sequence of one-character strings.                  *)
(***************************************************************************)
EXTENDS Integers, Sequences, FiniteSets, TLC

\* ------------------------------------------------------------------ bounds
\* Detection passes one behaviour may start.
MaxPasses == 2
\* Timers one behaviour may arm (setTimeout handles 1..MaxTimers).
MaxTimers == 2
\* Requests one chunk evaluation may issue before the model stops following
\* it (the code itself has no such cap, see retryOn): in the specification
\* of the retries, and in the others.
MaxRequests == 5
ShortRequests == 2

\* The largest query result (450 candidates make the three chunks 200, 200, 50).
MaxCandidates == 450
MaxLen == 3

\* ------------------------------------------------------- program constants
\* _options.retries (line 19)
retries == 3
\* chunk: number = 200 (line 104)
chunk == 200
\* setTimeout(..., 2000) in onFieldChanged (line 318)
DebounceMs == 2000
\* hard-coded defaults, in hundredths (lines 168, 190)
DefaultTitleSimilarityIndex == 95
DefaultDescriptionSimilarityIndex == 85

\* _statusCodes = [503, 504] (line 17)
_statusCodes == {503, 504}

\* -------------------------------------------------------------------- text
\* JavaScript's undefined (a field that did not change, a parameter not given).
undefined == <<"undefined">>

\* JavaScript truthiness of a string-or-undefined value.
Truthy(s) == s # undefined /\ s # <<>>

\* The characters /[.,\/#!$%\^&\*;:{}=\-_~()]/ and the backquote of the same
\* class (line 146); the backquote is written by name.
Punctuation == {".", ",", "/", "#", "!", "$", "%", "^", "&", "*", ";", ":",
                "{", "}", "=", "-", "_", "backquote", "~", "(", ")"}

\* \s of a JavaScript regular expression, over the characters modelled.
Whitespace == {" ", "\t", "\n"}

\* The quote characters striptags tracks inside a tag.
QuoteChars == {"'", "\""}

Last2(s) == IF Len(s) < 2 THEN s ELSE SubSeq(s, Len(s) - 1, Len(s))

\* striptags(html): the state machine of the striptags package with no
\* allowed tags and an empty replacement.  st is <<state, output, tag_buffer,
\* depth, in_quote_char>>.
RECURSIVE striptagsFrom(_, _, _)
striptagsFrom(html, idx, st) ==
  IF idx > Len(html) THEN st[2]
  ELSE
    LET c     == html[idx]
        state == st[1]
        out   == st[2]
        buf   == st[3]
        depth == st[4]
        quote == st[5]
        next  ==
          IF state = "plaintext" THEN
            IF c = "<" THEN <<"html", out, <<c>>, depth, quote>>
            ELSE <<state, Append(out, c), buf, depth, quote>>
          ELSE IF state = "html" THEN
            IF c = "<" THEN
              IF quote # "" THEN st ELSE <<state, out, buf, depth + 1, quote>>
            ELSE IF c = ">" THEN
              IF quote # "" THEN st
              ELSE IF depth > 0 THEN <<state, out, buf, depth - 1, quote>>
              ELSE <<"plaintext", out, <<>>, depth, "">>
            ELSE IF c \in QuoteChars THEN
              <<state, out, Append(buf, c), depth,
                IF c = quote THEN "" ELSE IF quote # "" THEN quote ELSE c>>
            ELSE IF c = "-" THEN
              <<IF buf = <<"<", "!", "-">> THEN "comment" ELSE state,
                out, Append(buf, c), depth, quote>>
            ELSE IF c \in {" ", "\n"} THEN
              IF buf = <<"<">> THEN <<"plaintext", out \o <<"<", " ">>, <<>>, depth, quote>>
              ELSE <<state, out, Append(buf, c), depth, quote>>
            ELSE <<state, out, Append(buf, c), depth, quote>>
          ELSE \* comment
            IF c = ">" THEN
              <<IF Last2(buf) = <<"-", "-">> THEN "plaintext" ELSE state,
                out, <<>>, depth, quote>>
            ELSE <<state, out, Append(buf, c), depth, quote>>
    IN striptagsFrom(html, idx + 1, next)

striptags(html) == striptagsFrom(html, 1, <<"plaintext", <<>>, <<>>, 0, "">>)

\* .replace(/[punctuation]/g, "") (line 146)
removePunctuation(s) == SelectSeq(s, LAMBDA c : c \notin Punctuation)

\* .replace(/\s{2,}/g, " "): every maximal run of two or more whitespace
\* characters becomes one space; a single whitespace character is kept.
RECURSIVE collapseFrom(_, _)
collapseFrom(s, i) ==
  IF i > Len(s) THEN <<>>
  ELSE IF s[i] \in Whitespace /\ i < Len(s) /\ s[i + 1] \in Whitespace THEN
    LET RECURSIVE runEnd(_)
        runEnd(j) == IF j < Len(s) /\ s[j + 1] \in Whitespace THEN runEnd(j + 1) ELSE j
    IN <<" ">> \o collapseFrom(s, runEnd(i) + 1)
  ELSE <<s[i]>> \o collapseFrom(s, i + 1)

collapseWhitespace(s) == collapseFrom(s, 1)

\* .trim()
RECURSIVE trim(_)
trim(s) ==
  IF s = <<>> THEN s
  ELSE IF Head(s) \in Whitespace THEN trim(Tail(s))
  ELSE IF s[Len(s)] \in Whitespace THEN trim(SubSeq(s, 1, Len(s) - 1))
  ELSE s

\* .toLowerCase()
UpperCase == <<"A", "B", "C", "D", "E", "F", "G", "H", "I", "J", "K", "L", "M",
               "N", "O", "P", "Q", "R", "S", "T", "U", "V", "W", "X", "Y", "Z">>
LowerCase == <<"a", "b", "c", "d", "e", "f", "g", "h", "i", "j", "k", "l", "m",
               "n", "o", "p", "q", "r", "s", "t", "u", "v", "w", "x", "y", "z">>
lowerChar(c) ==
  IF \E k \in 1..Len(UpperCase) : UpperCase[k] = c
  THEN LowerCase[CHOOSE k \in 1..Len(UpperCase) : UpperCase[k] = c]
  ELSE c
toLowerCase(s) == [i \in 1..Len(s) |-> lowerChar(s[i])]

\* normalizeString (lines 142-152)
normalizeString(orignial_text) ==
  IF Truthy(orignial_text)
  THEN toLowerCase(trim(collapseWhitespace(removePunctuation(striptags(orignial_text)))))
  ELSE <<>>

\* dice(fst, snd) of fast-dice-coefficient, as the comparison the code makes
\* with it: dice(fst, snd) >= index / 100.  Bigrams of fst are counted in a
\* multiset; every bigram of snd found there with a count left is a match.
bigramAt(s, i) == <<s[i], s[i + 1]>>

RECURSIVE diceMatches(_, _, _, _)
diceMatches(fst, snd, i, used) ==
  \* used: for each bigram position of fst, whether a bigram of snd consumed it
  IF i > Len(snd) - 1 THEN 0
  ELSE LET free == {k \in 1..(Len(fst) - 1) : ~used[k] /\ bigramAt(fst, k) = bigramAt(snd, i)}
       IN IF free = {} THEN diceMatches(fst, snd, i + 1, used)
          ELSE LET k == CHOOSE x \in free : \A y \in free : x <= y
               IN 1 + diceMatches(fst, snd, i + 1, [used EXCEPT ![k] = TRUE])

diceAtLeast(fst, snd, index) ==
  IF Len(fst) < 2 \/ Len(snd) < 2 THEN 0 >= index
  ELSE 200 * diceMatches(fst, snd, 1, [k \in 1..(Len(fst) - 1) |-> FALSE])
         >= index * (Len(fst) + Len(snd) - 2)

\* ------------------------------------------------------------ input values
\* Titles and descriptions the host form and the server hold.
TitleFoo  == <<"F", "o", "o">>
TitleFooo == <<"f", "o", "o", "o">>
TitleBar  == <<"b", "a", "r">>
DescBaz   == <<"<", "b", ">", "b", "a", "z", "<", "/", "b", ">">>
DescQux   == <<"q", "u", "x">>

\* The id of the saved record being edited; 0 is the falsy id of a new record.
SavedId == 1
NewId   == 0

\* A value the store does not hold (getValue resolves undefined).
Absent == -1

\* An identity as a JavaScript value: !== on line 233 holds of two values of
\* different types whatever they denote.  The batch response carries numbers
\* (workitem.id); the sentinel of line 84 is the string "-1".
NumberId(n) == [type |-> "number", value |-> n]
StringId(n) == [type |-> "string", value |-> n]

\* ------------------------------------------------------------------- state
VARIABLES
  record,      \* the live record of the host form: [id, title, description]
  formError,   \* whether the form carries the blocking error (setError/clearError)
  store,       \* the extension data store: [TitleSimilarityIndex, DescriptionSimilarityIndex]
  timers,      \* the pending setTimeout timers: records [handle, title, description, delay]
  _timeout,    \* this._timeout: the handle of the timer armed last, 0 before the first
  nTimers,     \* timers armed so far
  passes,      \* the calls of validateWorkItem, 1..nPasses started
  nPasses,     \* passes started so far
  burst        \* history: the field-change events of the current burst and the
               \* passes its timers started

vars == <<record, formError, store, timers, _timeout, nTimers, passes, nPasses, burst>>

PassIds == 1..MaxPasses

\* A pass that has not started.
NoPass ==
  [pc |-> "idle", origin |-> "none", args |-> <<undefined, undefined>>,
   lastEvent |-> <<undefined, undefined>>, atStart |-> <<undefined, undefined>>,
   title |-> undefined, description |-> undefined, id |-> NumberId(NewId),
   titleSimilarityIndex |-> Absent, descriptionSimilarityIndex |-> Absent,
   queried |-> Absent, chunks |-> <<>>, agg |-> "none", invalid |-> "none",
   calls |-> <<>>, outcome |-> "none"]

\* A chunk evaluation just launched: validateWorkItemChunk waits for the
\* access token (line 212).  first..last are the positions of its candidates
\* in the query result; status is the last response it evaluated (0: none).
NewChunk(first, last) ==
  [st |-> "token", attempt |-> 0, delay |-> 0, first |-> first, last |-> last,
   status |-> 0, scoredTitles |-> 0, scoredDescriptions |-> 0, scoredIds |-> {},
   value |-> <<>>, filtered |-> 0, titleMatched |-> FALSE]

\* The number of requests a chunk evaluation has issued (calls of the
\* underlying fetch by the fetch-retry wrapper).
requestsIssued(c) == IF c.st = "token" THEN 0 ELSE c.attempt + 1

Settled(c) == c.st \in {"true", "false", "rejected"}

\* --------------------------------------------------------------- operators
\* clearTimeout(handle) (line 313): a pending timer is removed, a timer that
\* fired already is no longer there.
clearTimeout(handle) == {t \in timers : t.handle # handle}

\* _options.retryOn (lines 23-29): truthy on any network error and on a
\* response with a status of _statusCodes, whatever the attempt number.
retryOn(attempt, error, status) == error \/ status \in _statusCodes

\* The fetch-retry wrapper built on line 32, called on line 219.  When the
\* retryOn option is a function, the wrapper asks only that function whether
\* to run the request again; it compares the attempt number with
\* the retries option only when retryOn is an array or is not given.
\* "retry": setTimeout(retryDelay(attempt)), then the request again;
\* "resolve": the wrapper's promise resolves with the response;
\* "reject": it rejects with the error.
fetchRetry(attempt, error, status) ==
  IF retryOn(attempt, error, status) THEN "retry"
  ELSE IF error THEN "reject"
  ELSE "resolve"

\* _options.retryDelay (lines 20-22), in milliseconds.
retryDelay(attempt) == (2 ^ attempt) * 1000

\* filtered_workitems.every(...) (lines 240-250, 257-267): the candidates are
\* scored in order and the scan stops at the first whose score reaches index.
scan(current, texts, index) ==
  LET hits == {k \in 1..Len(texts) : diceAtLeast(current, normalizeString(texts[k]), index)}
  IN IF hits = {} THEN [matched |-> FALSE, visited |-> Len(texts)]
     ELSE [matched |-> TRUE, visited |-> CHOOSE k \in hits : \A j \in hits : k <= j]

\* A variant of descriptionScanRuns that ignores the title scan's result.
descriptionScanAlways(duplicate, currentWorkItemDescription) ==
  Truthy(currentWorkItemDescription)

\* The condition of lines 254-256: the description scan runs when the title
\* scan set no duplicate and the current description is a non-empty string.
descriptionScanRuns(duplicate, currentWorkItemDescription) ==
  ~duplicate /\ Truthy(currentWorkItemDescription)

\* The success branch of the .then callback of validateWorkItemChunk (lines
\* 231-268) on a response body; body.ok is whether response.json() gives an
\* object with a value array (the callback throws otherwise, and the catch
\* on line 278 rejects the chunk's promise).  The result is how the chunk's
\* promise settles, the work items read from the body, how many passed the
\* filter, how many each scan scored and whether the title scan found a match.
scoreChunk(body, currentWorkItemId, currentWorkItemTitle, currentWorkItemDescription, titleSimilarityIndex, descriptionSimilarityIndex) ==
  IF ~body.ok THEN [st |-> "rejected", scoredTitles |-> 0, scoredDescriptions |-> 0,
                    scoredIds |-> {}, value |-> <<>>, filtered |-> 0, titleMatched |-> FALSE]
  ELSE
    LET filtered_workitems == SelectSeq(body.value, LAMBDA w : w.id # currentWorkItemId)
        titles == [k \in 1..Len(filtered_workitems) |-> filtered_workitems[k].title]
        descriptions == [k \in 1..Len(filtered_workitems) |-> filtered_workitems[k].description]
        t == IF Truthy(currentWorkItemTitle)
             THEN scan(currentWorkItemTitle, titles, titleSimilarityIndex)
             ELSE [matched |-> FALSE, visited |-> 0]
        d == IF descriptionScanRuns(t.matched, currentWorkItemDescription)
             THEN scan(currentWorkItemDescription, descriptions, descriptionSimilarityIndex)
             ELSE [matched |-> FALSE, visited |-> 0]
    IN [st |-> IF t.matched \/ d.matched THEN "true" ELSE "false",
        scoredTitles |-> t.visited, scoredDescriptions |-> d.visited,
        value |-> body.value,
        filtered |-> Len(filtered_workitems), titleMatched |-> t.matched,
        scoredIds |-> {filtered_workitems[k].id.value : k \in 1..t.visited}
                        \cup {filtered_workitems[k].id.value : k \in 1..d.visited}]

\* A variant of evaluateResponse without the status check of line 230.
evaluateAnyStatus(status, body, currentWorkItemId, currentWorkItemTitle, currentWorkItemDescription, titleSimilarityIndex, descriptionSimilarityIndex) ==
  scoreChunk(body, currentWorkItemId, currentWorkItemTitle, currentWorkItemDescription,
             titleSimilarityIndex, descriptionSimilarityIndex)

\* The .then callback of validateWorkItemChunk (lines 226-277) on a response
\* of the given status and body: only a 2xx response is read and scored, any
\* other resolves the chunk's promise with false.
evaluateResponse(status, body, currentWorkItemId, currentWorkItemTitle, currentWorkItemDescription, titleSimilarityIndex, descriptionSimilarityIndex) ==
  IF status >= 200 /\ status < 300
  THEN scoreChunk(body, currentWorkItemId, currentWorkItemTitle, currentWorkItemDescription,
                  titleSimilarityIndex, descriptionSimilarityIndex)
  ELSE [st |-> "false", scoredTitles |-> 0, scoredDescriptions |-> 0, scoredIds |-> {},
        value |-> <<>>, filtered |-> 0, titleMatched |-> FALSE]

\* A variant of getfirstResolvedPromise whose wrappers resolve true on a
\* rejected chunk promise as well.
getfirstSettledPromise(agg, chunks) ==
  IF agg \notin {"none", "pending"} THEN agg
  ELSE IF \E k \in 1..Len(chunks) : chunks[k].st \in {"true", "rejected"} THEN "true"
  ELSE IF \A k \in 1..Len(chunks) : chunks[k].st = "false" THEN "false"
  ELSE "pending"

\* A variant of getfirstResolvedPromise without the Promise.all of line 297
\* when there is no chunk promise: the race has nothing that settles.
getfirstOfSomePromises(agg, chunks) ==
  IF agg \notin {"none", "pending"} THEN agg
  ELSE IF \E k \in 1..Len(chunks) : chunks[k].st = "true" THEN "true"
  ELSE IF \E k \in 1..Len(chunks) : chunks[k].st = "rejected" THEN "rejected"
  ELSE IF chunks # <<>> /\ \A k \in 1..Len(chunks) : chunks[k].st = "false" THEN "false"
  ELSE "pending"

\* A variant of getfirstResolvedPromise whose promise follows the chunk
\* promises after it has settled: a later rejection replaces its value.
getLatestPromise(agg, chunks) ==
  IF \E k \in 1..Len(chunks) : chunks[k].st = "rejected" THEN "rejected"
  ELSE IF \E k \in 1..Len(chunks) : chunks[k].st = "true" THEN "true"
  ELSE IF \A k \in 1..Len(chunks) : chunks[k].st = "false" THEN "false"
  ELSE "pending"

\* getfirstResolvedPromise (lines 293-299): the state of the promise it
\* returned, given its state so far and the chunk promises now.  One wrapper
\* per chunk promise resolves true when the chunk resolves true and rejects
\* when it rejects; Promise.all(promises).then(() => false) resolves false
\* when every chunk has resolved; Promise.race settles as the first of
\* these does, and a settled promise keeps its state.
getfirstResolvedPromise(agg, chunks) ==
  IF agg \notin {"none", "pending"} THEN agg
  ELSE IF \E k \in 1..Len(chunks) : chunks[k].st = "true" THEN "true"
  ELSE IF \E k \in 1..Len(chunks) : chunks[k].st = "rejected" THEN "rejected"
  ELSE IF \A k \in 1..Len(chunks) : chunks[k].st = "false" THEN "false"
  ELSE "pending"

\* validateWorkItem after "await this.getfirstResolvedPromise(promises)"
\* (line 113): a resolved aggregate takes the pass on to getInvalidFields, a
\* rejected one throws out of validateWorkItem, which nobody catches.
resume(ps) ==
  IF ps.pc # "aggregate" \/ ps.agg = "pending" THEN ps
  ELSE IF ps.agg = "rejected" THEN [ps EXCEPT !.pc = "done", !.outcome = "aborted"]
  ELSE [ps EXCEPT !.pc = "gate"]

\* A variant of reportVerdict without the return of lines 124-128.
reportVerdictIgnoringGate(invalid, duplicate) ==
  IF duplicate THEN <<"setError">> ELSE <<"clearError">>

\* A variant of reportVerdict with the branches of lines 131-138 exchanged.
reportVerdictSwapped(invalid, duplicate) ==
  IF invalid THEN <<>>
  ELSE IF duplicate THEN <<"clearError">>
  ELSE <<"setError">>

\* validateWorkItem, lines 123-138: what the pass calls on the form given
\* whether invalid fields are reported and the verdict.
reportVerdict(invalid, duplicate) ==
  IF invalid THEN <<>>
  ELSE IF duplicate THEN <<"setError">>
  ELSE <<"clearError">>

\* A variant of launchChunks that slices one candidate short:
\* slice(i, i + chunk - 1).
launchChunksShort(n) ==
  [k \in 1..((n + chunk - 1) \div chunk) |->
     NewChunk((k - 1) * chunk + 1, IF k * chunk - 1 < n THEN k * chunk - 1 ELSE n)]

\* The chunks of a query result of n candidates (lines 104-110):
\* slice(i, i + chunk) for i = 0, chunk, 2*chunk, ... below n.
launchChunks(n) ==
  [k \in 1..((n + chunk - 1) \div chunk) |->
     NewChunk((k - 1) * chunk + 1, IF k * chunk < n THEN k * chunk ELSE n)]

\* -------------------------------------------------------- the environment
\* Records the host form may show.
Records ==
  {[id |-> NewId, title |-> <<>>, description |-> <<>>],
   [id |-> SavedId, title |-> TitleFoo, description |-> <<>>],
   [id |-> SavedId, title |-> TitleFoo, description |-> DescBaz],
   [id |-> SavedId, title |-> <<>>, description |-> DescBaz]}

\* The form as the extension is constructed: a new, empty record.
BlankRecord == [id |-> NewId, title |-> <<>>, description |-> <<>>]

\* The values a field-change event carries for a field: undefined when the
\* field did not change.
FieldTitles == {undefined, <<>>, TitleFoo, TitleBar}
FieldDescriptions == {undefined, DescBaz}

\* Response statuses of the batch endpoint, and 0 for a network-level error.
Statuses == {0, 200, 404, 503, 504}

\* The candidates a batch response may carry for a chunk: the record being
\* edited when the chunk holds its id, and other records of the chunk.
Candidate(id, title, description) ==
  [id |-> NumberId(id), title |-> title, description |-> description]

Bodies(c, rich) ==
  LET near == Candidate(c.first + 1, TitleFooo, undefined)
      same == Candidate(c.first + 2, TitleFoo, DescQux)
      desc == Candidate(c.first + 3, TitleBar, DescBaz)
      self == Candidate(SavedId, TitleFoo, DescBaz)
      lists == {<<>>, <<near, same>>}
                 \cup (IF rich THEN {<<near>>, <<desc>>} ELSE {})
                 \cup (IF rich /\ c.first <= SavedId /\ SavedId <= c.last
                       THEN {<<self>>, <<self, desc>>} ELSE {})
  IN {[ok |-> FALSE, value |-> <<>>]} \cup {[ok |-> TRUE, value |-> v] : v \in lists}

\* ------------------------------------------------------------------ actions
\* validateWorkItem(title, description) up to its first await (lines 42-62),
\* as a new pass; atStart notes the title and the description the record has
\* at that moment.
validateWorkItem(origin, title, description) ==
  /\ nPasses < MaxPasses
  /\ nPasses' = nPasses + 1
  /\ passes' = [passes EXCEPT ![nPasses + 1] =
       [NoPass EXCEPT
          !.pc = IF ~Truthy(title) THEN "getTitle"
                 ELSE IF ~Truthy(description) THEN "getDescription"
                 ELSE "setup",
          !.origin = origin,
          !.args = <<title, description>>,
          !.lastEvent = <<burst.title, burst.description>>,
          !.atStart = <<record'.title, record'.description>>,
          !.title = title,
          !.description = description]]

\* A variant of onFieldChanged without the test of lines 310-311.
onFieldChangedAlways(title, description) ==
  /\ nTimers < MaxTimers
  /\ timers' = (IF _timeout # 0 THEN clearTimeout(_timeout) ELSE timers)
                 \cup {[handle |-> nTimers + 1, title |-> title,
                        description |-> description, delay |-> DebounceMs]}
  /\ _timeout' = nTimers + 1
  /\ nTimers' = nTimers + 1

\* onFieldChanged (lines 302-320).
onFieldChanged(title, description) ==
  IF Truthy(title) \/ Truthy(description) THEN
    /\ nTimers < MaxTimers
    /\ timers' = (IF _timeout # 0 THEN clearTimeout(_timeout) ELSE timers)
                   \cup {[handle |-> nTimers + 1, title |-> title,
                          description |-> description, delay |-> DebounceMs]}
    /\ _timeout' = nTimers + 1
    /\ nTimers' = nTimers + 1
  ELSE UNCHANGED <<timers, _timeout, nTimers>>

\* The host changes fields of the record and notifies the observer with
\* changedFields: t and d are the new title and description, undefined for a
\* field the event did not change.  The history variable burst follows the
\* events that changed the title or the description: such an event opens a
\* burst when no deadline is pending and joins the current one otherwise.
FieldChanged(titles, descriptions) ==
  \E t \in titles, d \in descriptions :
    /\ t # record.title /\ d # record.description
    /\ record' = [record EXCEPT !.title = IF t = undefined THEN @ ELSE t,
                                !.description = IF d = undefined THEN @ ELSE d]
    /\ onFieldChanged(t, d)
    /\ burst' = IF t = undefined /\ d = undefined THEN burst
                ELSE IF timers = {}
                THEN [events |-> 1, passes |-> 0, title |-> t, description |-> d]
                ELSE [burst EXCEPT !.events = @ + 1, !.title = t, !.description = d]
    /\ UNCHANGED <<formError, store, passes, nPasses>>

\* The debounce timer's callback (lines 315-318).
TimerFires ==
  \E t \in timers :
    /\ timers' = timers \ {t}
    /\ UNCHANGED <<record, formError, store, _timeout, nTimers>>
    /\ validateWorkItem("timer", t.title, t.description)
    /\ burst' = [burst EXCEPT !.passes = @ + 1]

\* A variant of readAndValidate that hands over the values the form held
\* before the event.
readAndValidateStale(origin) ==
  IF Truthy(record'.title) \/ Truthy(record'.description)
  THEN validateWorkItem(origin, record.title, record.description)
  ELSE UNCHANGED <<passes, nPasses>>

\* onLoaded and onRefreshed (lines 327-337, 345-355): the two field reads and
\* the call of validateWorkItem when either is non-empty.
readAndValidate(origin) ==
  IF Truthy(record'.title) \/ Truthy(record'.description)
  THEN validateWorkItem(origin, record'.title, record'.description)
  ELSE UNCHANGED <<passes, nPasses>>

\* The host loads a work item into the form.
OnLoaded(records) ==
  \E r \in records :
    /\ record' = r
    /\ readAndValidate("loaded")
    /\ UNCHANGED <<formError, store, timers, _timeout, nTimers, burst>>

\* The host refreshes the work item from the server.
OnRefreshed(records) ==
  \E r \in records :
    /\ record' = [r EXCEPT !.id = record.id]
    /\ readAndValidate("refreshed")
    /\ UNCHANGED <<formError, store, timers, _timeout, nTimers, burst>>

\* validateWorkItem is public ("main entrypoint for validation logic"): a
\* call from outside the listener, with the arguments it is given.
Called(titles, descriptions) ==
  \E t \in titles, d \in descriptions :
    /\ UNCHANGED <<record, formError, store, timers, _timeout, nTimers, burst>>
    /\ validateWorkItem("direct", t, d)

\* A variant of OnSaved that validates the saved record as onLoaded does.
OnSavedValidating ==
  /\ record.id = NewId
  /\ record' = [record EXCEPT !.id = SavedId]
  /\ readAndValidate("saved")
  /\ UNCHANGED <<formError, store, timers, _timeout, nTimers, burst>>

\* onSaved (lines 358-360): the saved record has an id.
OnSaved ==
  /\ record.id = NewId
  /\ record' = [record EXCEPT !.id = SavedId]
  /\ UNCHANGED <<formError, store, timers, _timeout, nTimers, passes, nPasses, burst>>

\* A variant of OnUnloaded that cancels the pending deadline.
OnUnloadedCancelling ==
  /\ timers' = {}
  /\ _timeout' = 0
  /\ UNCHANGED <<record, formError, store, nTimers, passes, nPasses, burst>>

\* onReset and onUnloaded (lines 340-342, 363-365) only log.
OnReset == UNCHANGED vars
OnUnloaded == UNCHANGED vars

\* ---------------------------------------------------- the steps of a pass
PassFrame == UNCHANGED <<record, timers, _timeout, nTimers, nPasses, burst>>

\* A variant of GetTitle that goes on without the value of the record.
GetTitleNoRead(p) ==
  /\ passes[p].pc = "getTitle"
  /\ passes' = [passes EXCEPT ![p] =
       IF ~Truthy(@.description) THEN [@ EXCEPT !.pc = "getDescription"]
       ELSE [@ EXCEPT !.pc = "setup"]]
  /\ UNCHANGED <<formError, store>> /\ PassFrame

\* Lines 45-59: the title read from the live record when none was given.
GetTitle(p) ==
  /\ passes[p].pc = "getTitle"
  /\ LET ps == [passes[p] EXCEPT !.title = record.title]
     IN passes' = [passes EXCEPT ![p] =
          IF ~Truthy(ps.description) THEN [ps EXCEPT !.pc = "getDescription"]
          ELSE [ps EXCEPT !.pc = "setup"]]
  /\ UNCHANGED <<formError, store>> /\ PassFrame

\* A variant of GetDescription without the return of lines 55-59.
GetDescriptionNoReturn(p) ==
  /\ passes[p].pc = "getDescription"
  /\ passes' = [passes EXCEPT ![p] =
       [@ EXCEPT !.description = record.description, !.pc = "setup"]]
  /\ UNCHANGED <<formError, store>> /\ PassFrame

\* Lines 50-59: the description read from the live record when none was
\* given, and the return when both are empty.
GetDescription(p) ==
  /\ passes[p].pc = "getDescription"
  /\ LET ps == [passes[p] EXCEPT !.description = record.description]
     IN passes' = [passes EXCEPT ![p] =
          IF ~Truthy(ps.title) /\ ~Truthy(ps.description)
          THEN [ps EXCEPT !.pc = "done", !.outcome = "noop"]
          ELSE [ps EXCEPT !.pc = "setup"]]
  /\ UNCHANGED <<formError, store>> /\ PassFrame

\* Lines 62-74 and 79-85: the location, the project, the record's id and
\* type; a falsy id becomes the string "-1".  Line 73 declares the value of
\* System.Id a string ("as string" checks nothing at run time): idTypes are
\* the types of the value the host may resolve with.
Setup(p, idTypes) ==
  /\ passes[p].pc = "setup"
  /\ \E type \in idTypes :
       passes' = [passes EXCEPT ![p] =
         [@ EXCEPT !.id = IF record.id = NewId THEN StringId(-1)
                          ELSE [type |-> type, value |-> record.id],
                   !.pc = "titleGet"]]
  /\ UNCHANGED <<formError, store>> /\ PassFrame

\* getTitleSimilarityIndex, lines 156-167: the stored value is read; a falsy
\* one (absent, or 0) leads to the write of the default.
TitleGet(p) ==
  /\ passes[p].pc = "titleGet"
  /\ LET v == store.TitleSimilarityIndex
     IN passes' = [passes EXCEPT ![p] =
          IF v = Absent \/ v = 0 THEN [@ EXCEPT !.pc = "titleSet"]
          ELSE [@ EXCEPT !.titleSimilarityIndex = v, !.pc = "descGet"]]
  /\ UNCHANGED <<formError, store>> /\ PassFrame

\* A variant of TitleSet that returns the default without storing it.
TitleSetNoStore(p) ==
  /\ passes[p].pc = "titleSet"
  /\ passes' = [passes EXCEPT ![p] =
       [@ EXCEPT !.titleSimilarityIndex = DefaultTitleSimilarityIndex, !.pc = "descGet"]]
  /\ UNCHANGED <<formError, store>> /\ PassFrame

\* getTitleSimilarityIndex, lines 168-173: setValue stores the default and
\* resolves to it.
TitleSet(p) ==
  /\ passes[p].pc = "titleSet"
  /\ store' = [store EXCEPT !.TitleSimilarityIndex = DefaultTitleSimilarityIndex]
  /\ passes' = [passes EXCEPT ![p] =
       [@ EXCEPT !.titleSimilarityIndex = DefaultTitleSimilarityIndex, !.pc = "descGet"]]
  /\ UNCHANGED formError /\ PassFrame

\* getDescriptionSimilarityIndex, lines 178-189.
DescriptionGet(p) ==
  /\ passes[p].pc = "descGet"
  /\ LET v == store.DescriptionSimilarityIndex
     IN passes' = [passes EXCEPT ![p] =
          IF v = Absent \/ v = 0 THEN [@ EXCEPT !.pc = "descSet"]
          ELSE [@ EXCEPT !.descriptionSimilarityIndex = v, !.pc = "query"]]
  /\ UNCHANGED <<formError, store>> /\ PassFrame

\* A variant of DescriptionSet whose write is refused when the key exists,
\* the pass going on with the value it read.
DescriptionSetOnce(p) ==
  /\ passes[p].pc = "descSet"
  /\ store' = [store EXCEPT !.DescriptionSimilarityIndex =
                  IF @ = Absent THEN DefaultDescriptionSimilarityIndex ELSE @]
  /\ passes' = [passes EXCEPT ![p] =
       [@ EXCEPT !.descriptionSimilarityIndex =
                    IF store.DescriptionSimilarityIndex = Absent
                    THEN DefaultDescriptionSimilarityIndex ELSE 0,
                 !.pc = "query"]]
  /\ UNCHANGED formError /\ PassFrame

\* getDescriptionSimilarityIndex, lines 190-195.
DescriptionSet(p) ==
  /\ passes[p].pc = "descSet"
  /\ store' = [store EXCEPT !.DescriptionSimilarityIndex = DefaultDescriptionSimilarityIndex]
  /\ passes' = [passes EXCEPT ![p] =
       [@ EXCEPT !.descriptionSimilarityIndex = DefaultDescriptionSimilarityIndex,
                 !.pc = "query"]]
  /\ UNCHANGED formError /\ PassFrame

\* A variant of StoreFails in which the failing pass clears the error.
StoreFailsClearing(p) ==
  /\ passes[p].pc \in {"titleGet", "titleSet", "descGet", "descSet"}
  /\ passes' = [passes EXCEPT ![p] = [@ EXCEPT !.pc = "done", !.outcome = "aborted"]]
  /\ formError' = FALSE
  /\ UNCHANGED store /\ PassFrame

\* A read or write of the store is rejected: the await throws out of
\* validateWorkItem (lines 76-77).
StoreFails(p) ==
  /\ passes[p].pc \in {"titleGet", "titleSet", "descGet", "descSet"}
  /\ passes' = [passes EXCEPT ![p] = [@ EXCEPT !.pc = "done", !.outcome = "aborted"]]
  /\ UNCHANGED <<formError, store>> /\ PassFrame

\* queryByWiql resolves with n work items (lines 97-113): the chunk
\* evaluations are launched and the pass waits for the aggregate.
QueryResolves(p, counts) ==
  /\ passes[p].pc = "query"
  /\ \E n \in counts :
       LET chunks == launchChunks(n)
       IN passes' = [passes EXCEPT ![p] =
            resume([@ EXCEPT !.pc = "aggregate", !.queried = n, !.chunks = chunks,
                             !.agg = getfirstResolvedPromise("none", chunks)])]
  /\ UNCHANGED <<formError, store>> /\ PassFrame

\* A variant of QueryFails that goes on as if the query had found nothing.
QueryFailsAsEmpty(p) ==
  /\ passes[p].pc = "query"
  /\ passes' = [passes EXCEPT ![p] =
       resume([@ EXCEPT !.pc = "aggregate", !.queried = 0,
                        !.agg = getfirstResolvedPromise("none", <<>>)])]
  /\ UNCHANGED <<formError, store>> /\ PassFrame

\* queryByWiql rejects: the await on line 97 throws out of validateWorkItem.
QueryFails(p) ==
  /\ passes[p].pc = "query"
  /\ passes' = [passes EXCEPT ![p] = [@ EXCEPT !.pc = "done", !.outcome = "aborted"]]
  /\ UNCHANGED <<formError, store>> /\ PassFrame

\* A chunk promise settles: the aggregate reacts and the pass goes on when
\* the aggregate has settled.
settleChunk(ps, i, c) ==
  LET chunks == [ps.chunks EXCEPT ![i] = c]
  IN resume([ps EXCEPT !.chunks = chunks,
                       !.agg = getfirstResolvedPromise(ps.agg, chunks)])

\* SDK.getAccessToken() resolves (line 212) and the first request is issued
\* (line 219).
TokenResolves(p, i) ==
  /\ i \in 1..Len(passes[p].chunks)
  /\ passes[p].chunks[i].st = "token"
  /\ passes' = [passes EXCEPT ![p].chunks[i].st = "fetching"]
  /\ UNCHANGED <<formError, store>> /\ PassFrame

\* SDK.getAccessToken() rejects (line 212): validateWorkItemChunk's promise
\* is rejected.
TokenFails(p, i) ==
  /\ i \in 1..Len(passes[p].chunks)
  /\ passes[p].chunks[i].st = "token"
  /\ passes' = [passes EXCEPT ![p] =
       settleChunk(@, i, [@.chunks[i] EXCEPT !.st = "rejected"])]
  /\ UNCHANGED <<formError, store>> /\ PassFrame

\* A request ends, with a response or a network error (status 0), and the
\* fetch-retry wrapper decides; a response it resolves with is evaluated
\* (lines 219-282).
RequestEnds(p, i, rich) ==
  /\ i \in 1..Len(passes[p].chunks)
  /\ passes[p].chunks[i].st = "fetching"
  /\ \E status \in Statuses :
       LET ps == passes[p]
           c == ps.chunks[i]
           decision == fetchRetry(c.attempt, status = 0, status)
       IN IF decision = "retry" THEN
            passes' = [passes EXCEPT ![p].chunks[i] =
              [c EXCEPT !.st = "backoff", !.delay = retryDelay(c.attempt)]]
          ELSE IF decision = "reject" THEN
            passes' = [passes EXCEPT ![p] =
              settleChunk(ps, i, [c EXCEPT !.st = "rejected", !.status = status])]
          ELSE
            \E body \in Bodies(c, rich) :
              LET r == evaluateResponse(status, body, ps.id,
                         normalizeString(ps.title), normalizeString(ps.description),
                         ps.titleSimilarityIndex, ps.descriptionSimilarityIndex)
              IN passes' = [passes EXCEPT ![p] =
                   settleChunk(ps, i, [c EXCEPT !.st = r.st, !.status = status,
                                                !.scoredIds = r.scoredIds,
                                                !.value = r.value,
                                                !.filtered = r.filtered,
                                                !.titleMatched = r.titleMatched,
                                                !.scoredTitles = r.scoredTitles,
                                                !.scoredDescriptions = r.scoredDescriptions])]
  /\ UNCHANGED <<formError, store>> /\ PassFrame

\* The wrapper's retry timer, set with retryDelay(attempt), fires and the
\* request is issued again as attempt + 1.
RetryFires(p, i, maxRequests) ==
  /\ i \in 1..Len(passes[p].chunks)
  /\ passes[p].chunks[i].st = "backoff"
  /\ requestsIssued(passes[p].chunks[i]) < maxRequests
  /\ passes' = [passes EXCEPT ![p].chunks[i] =
       [@ EXCEPT !.st = "fetching", !.attempt = @ + 1]]
  /\ UNCHANGED <<formError, store>> /\ PassFrame

\* The retry timer fires for a request beyond MaxRequests or ShortRequests:
\* the wrapper sets no limit (see fetchRetry), the request is issued again,
\* and the attempts beyond the bound are not counted.
RetryFiresAgain(p, i, maxRequests) ==
  /\ i \in 1..Len(passes[p].chunks)
  /\ passes[p].chunks[i].st = "backoff"
  /\ requestsIssued(passes[p].chunks[i]) = maxRequests
  /\ passes' = [passes EXCEPT ![p].chunks[i].st = "fetching"]
  /\ UNCHANGED <<formError, store>> /\ PassFrame

\* A variant of Gate in which only the pass started last reports its verdict.
GateNewestOnly(p) ==
  /\ passes[p].pc = "gate"
  /\ \E invalid \in BOOLEAN :
       LET calls == IF p = nPasses THEN reportVerdict(invalid, passes[p].agg = "true")
                    ELSE <<>>
       IN /\ passes' = [passes EXCEPT ![p] =
               [@ EXCEPT !.pc = "done", !.invalid = IF invalid THEN "yes" ELSE "no",
                         !.calls = calls,
                         !.outcome = IF calls = <<>> THEN "skipped"
                                     ELSE IF calls[Len(calls)] = "setError" THEN "set"
                                     ELSE "cleared"]]
          /\ formError' = IF calls = <<>> THEN formError
                          ELSE calls[Len(calls)] = "setError"
  /\ UNCHANGED store /\ PassFrame

\* getInvalidFields resolves (lines 116-138): the pass sets the error, clears
\* it, or leaves the form alone.
Gate(p) ==
  /\ passes[p].pc = "gate"
  /\ \E invalid \in BOOLEAN :
       LET calls == reportVerdict(invalid, passes[p].agg = "true")
       IN /\ passes' = [passes EXCEPT ![p] =
               [@ EXCEPT !.pc = "done", !.invalid = IF invalid THEN "yes" ELSE "no",
                         !.calls = calls,
                         !.outcome = IF calls = <<>> THEN "skipped"
                                     ELSE IF calls[Len(calls)] = "setError" THEN "set"
                                     ELSE "cleared"]]
          /\ formError' = IF calls = <<>> THEN formError
                          ELSE calls[Len(calls)] = "setError"
  /\ UNCHANGED store /\ PassFrame

\* ----------------------------------------------------------- specifications
\* The state after construction, for a form showing one of the records r and
\* a store holding one of the threshold pairs.
InitWith(records, stores) ==
  /\ record \in records
  /\ formError = FALSE
  /\ store \in stores
  /\ timers = {}
  /\ _timeout = 0
  /\ nTimers = 0
  /\ passes = [p \in PassIds |-> NoPass]
  /\ nPasses = 0
  /\ burst = [events |-> 0, passes |-> 0, title |-> undefined, description |-> undefined]

\* A store with no threshold yet, and one holding 0.80 for both.
DefaultStores ==
  {[TitleSimilarityIndex |-> Absent, DescriptionSimilarityIndex |-> Absent],
   [TitleSimilarityIndex |-> 80, DescriptionSimilarityIndex |-> 80]}

ChunkIds == 1..((MaxCandidates + chunk - 1) \div chunk)

\* The steps of pass p, for query results of the sizes counts, chunk
\* evaluations followed for maxRequests requests, and the rich or the plain
\* set of response bodies, and the types idTypes of the record's id.
PassStep(p, counts, maxRequests, rich, idTypes) ==
  \/ GetTitle(p)
  \/ GetDescription(p)
  \/ Setup(p, idTypes)
  \/ TitleGet(p)
  \/ TitleSet(p)
  \/ DescriptionGet(p)
  \/ DescriptionSet(p)
  \/ StoreFails(p)
  \/ QueryResolves(p, counts)
  \/ QueryFails(p)
  \/ \E i \in ChunkIds : \/ TokenResolves(p, i)
                         \/ TokenFails(p, i)
                         \/ RequestEnds(p, i, rich)
                         \/ RetryFires(p, i, maxRequests)
  \/ Gate(p)

\* The whole system: the trigger controller and overlapping passes, for a
\* saved record, one edit of the description and query results of one chunk.
Init == InitWith({BlankRecord}, DefaultStores)

InitAbsent == InitWith({BlankRecord}, {[TitleSimilarityIndex |-> Absent,
                                        DescriptionSimilarityIndex |-> Absent]})

SavedRecord == [id |-> SavedId, title |-> TitleFoo, description |-> <<>>]

\* A call of validateWorkItem from outside before any other pass.
CalledFirst == nPasses = 0 /\ Called({undefined}, {undefined})

Next ==
  \/ FieldChanged({undefined}, {undefined, DescBaz})
  \/ TimerFires
  \/ OnLoaded({SavedRecord})
  \/ OnRefreshed({SavedRecord})
  \/ OnSaved
  \/ OnReset
  \/ OnUnloaded
  \/ CalledFirst
  \/ \E p \in PassIds : PassStep(p, {150}, ShortRequests, FALSE, {"string"})

Spec == InitAbsent /\ [][Next]_vars

\* The trigger controller: the host's notifications, the debounce timer and
\* the start of each pass up to the fields it reads from the live record.
NextTrigger ==
  \/ FieldChanged(FieldTitles, FieldDescriptions)
  \/ TimerFires
  \/ OnLoaded(Records)
  \/ OnRefreshed(Records)
  \/ OnSaved
  \/ OnReset
  \/ OnUnloaded
  \/ \E p \in PassIds : GetTitle(p) \/ GetDescription(p)

SpecTrigger == Init /\ [][NextTrigger]_vars

\* One pass, started by the form being loaded or by a call of
\* validateWorkItem for the new, empty record, with query results of up to
\* three chunks.
OnLoadedOnce == nPasses = 0 /\ OnLoaded(Records)

CalledOnce == nPasses = 0 /\ Called({undefined, TitleFoo}, {undefined})

NextPass ==
  \/ OnLoadedOnce
  \/ CalledOnce
  \/ \E p \in PassIds : PassStep(p, {0, 150, chunk, 250, MaxCandidates}, ShortRequests, FALSE, {"string"})

SpecPass == Init /\ [][NextPass]_vars

\* One pass with one chunk, its evaluation followed for MaxRequests requests.
NextRetry ==
  \/ OnLoadedOnce
  \/ \E p \in PassIds : PassStep(p, {150}, MaxRequests, TRUE, {"string", "number"})

SpecRetry == Init /\ [][NextRetry]_vars

\* The thresholds: passes started by the form being loaded, up to the query,
\* over a store that holds no threshold, 0, 0.50 or 1 for either key.
StoredIndexes == {Absent, 0, 50, 100}

ThresholdStores ==
  [TitleSimilarityIndex : StoredIndexes, DescriptionSimilarityIndex : StoredIndexes]

NextThreshold ==
  \/ OnLoaded({[id |-> SavedId, title |-> TitleFoo, description |-> DescBaz]})
  \/ \E p \in PassIds : \/ Setup(p, {"string"})
                         \/ TitleGet(p)
                         \/ TitleSet(p)
                         \/ DescriptionGet(p)
                         \/ DescriptionSet(p)
                         \/ StoreFails(p)

InitThreshold == InitWith({BlankRecord}, ThresholdStores)

SpecThreshold == InitThreshold /\ [][NextThreshold]_vars

\* Passes for loaded records, up to their query, over a store that holds no
\* threshold yet.
NextRace ==
  \/ OnLoaded(Records)
  \/ \E p \in PassIds : \/ GetTitle(p)
                         \/ GetDescription(p)
                         \/ Setup(p, {"string"})
                         \/ TitleGet(p)
                         \/ TitleSet(p)
                         \/ DescriptionGet(p)
                         \/ DescriptionSet(p)
                         \/ StoreFails(p)

SpecRace == InitAbsent /\ [][NextRace]_vars

\* Titles of up to MaxLen characters over a letter in each case, the tag
\* delimiters, a space and a punctuation character; a saved record with such
\* a title is loaded and its pass goes up to the thresholds.
TextChars == {"a", "B", "<", ">", " ", "-"}

Texts == UNION {[1..n -> TextChars] : n \in 0..MaxLen}

TextRecords == {[id |-> SavedId, title |-> t, description |-> <<>>] : t \in Texts}

LoadedText == nPasses = 0 /\ OnLoaded(TextRecords)

NextText ==
  \/ LoadedText
  \/ \E p \in PassIds : GetDescription(p) \/ Setup(p, {"string"})

SpecText == Init /\ [][NextText]_vars

\* One pass over one chunk whose retry loop is not cut off, under the
\* scheduling the host gives: a promise of the host that can settle settles,
\* a request that is out gets a response or a network error, and a retry
\* timer that is set fires.
HostSettles ==
  \E p \in PassIds :
    \/ GetTitle(p) \/ GetDescription(p) \/ Setup(p, {"string"})
    \/ TitleGet(p) \/ TitleSet(p) \/ DescriptionGet(p) \/ DescriptionSet(p)
    \/ StoreFails(p) \/ QueryResolves(p, {150}) \/ QueryFails(p) \/ Gate(p)
    \/ \E i \in ChunkIds : TokenResolves(p, i) \/ TokenFails(p, i)

RequestAnswered == \E p \in PassIds : \E i \in ChunkIds : RequestEnds(p, i, FALSE)

RetryTimerFires ==
  \E p \in PassIds : \E i \in ChunkIds :
    RetryFires(p, i, ShortRequests) \/ RetryFiresAgain(p, i, ShortRequests)

NextLive ==
  \/ OnLoadedOnce
  \/ HostSettles
  \/ RequestAnswered
  \/ RetryTimerFires

SpecLive ==
  /\ Init /\ [][NextLive]_vars
  /\ WF_vars(HostSettles) /\ WF_vars(RequestAnswered) /\ WF_vars(RetryTimerFires)

\* ------------------------------------------------------------ properties
chunksOf(p) == passes[p].chunks
ChunkIdsOf(p) == 1..Len(passes[p].chunks)

\* C1: the aggregate of a pass is resolved true as soon as one chunk
\* evaluation of the pass has resolved true, whatever the states of the
\* other evaluations (pending, resolved false, or failed).
C1_TrueWins ==
  \A p \in PassIds :
    (\E k \in ChunkIdsOf(p) : chunksOf(p)[k].st = "true") => passes[p].agg = "true"

\* C2: when every chunk evaluation of a pass has completed and none resolved
\* true the aggregate is resolved false, and it is never resolved false while
\* an evaluation is still pending.
C2_FalseAfterAll ==
  \A p \in PassIds :
    /\ passes[p].agg = "false" => \A k \in ChunkIdsOf(p) : Settled(chunksOf(p)[k])
    /\ ( /\ passes[p].agg # "none"
         /\ \A k \in ChunkIdsOf(p) : Settled(chunksOf(p)[k]) /\ chunksOf(p)[k].st # "true" )
       => passes[p].agg = "false"

\* C3: a chunk evaluation that failed counts as not a duplicate: the
\* aggregate is not rejected by it and the pass is not aborted, it goes on to
\* the gate and the set/clear step.
C3_FailureIsNotDuplicate ==
  \A p \in PassIds :
    (\E k \in ChunkIdsOf(p) : chunksOf(p)[k].st = "rejected")
      => passes[p].agg # "rejected" /\ passes[p].outcome # "aborted"

\* C4: a burst of events that change the title or the description starts
\* exactly one pass: while a deadline of the burst is pending no pass of the
\* burst has started, and once none is pending exactly one has.
C4_BurstStartsOnePass ==
  /\ timers # {} => burst.passes = 0
  /\ (timers = {} /\ burst.events >= 1) => burst.passes = 1

\* C5: the pass the debounce timer starts is given the title and description
\* of the last event of the burst that changed the title or the description,
\* never those of an earlier event.
C5_PassUsesLastEvent ==
  \A p \in PassIds :
    passes[p].origin = "timer" => passes[p].args = passes[p].lastEvent

\* C6: the step of a pass in which the form reports invalid fields calls
\* neither setError nor clearError and leaves the form's error state as it
\* was, whatever the verdict.
C6_InvalidFieldsLeaveFormAlone ==
  [][\A p \in PassIds :
       (passes[p].pc = "gate" /\ passes'[p].invalid = "yes")
         => passes'[p].calls = <<>> /\ formError' = formError]_vars

C6_GatedWhileErrorSet ==
  \E p \in PassIds :
    /\ passes[p].pc = "done" /\ passes[p].invalid = "yes"
    /\ passes[p].agg = "false" /\ passes[p].calls = <<>> /\ formError

\* C7: a pass that ends with no invalid fields reported calls setError, and
\* only it, exactly when the verdict is true, and clearError, and only it,
\* exactly when the verdict is false.
C7_SetIffDuplicate ==
  \A p \in PassIds :
    (passes[p].pc = "done" /\ passes[p].invalid = "no")
      => /\ passes[p].agg \in {"true", "false"}
         /\ passes[p].calls = <<"setError">> <=> passes[p].agg = "true"
         /\ passes[p].calls = <<"clearError">> <=> passes[p].agg = "false"

C7_ErrorSet ==
  \E p \in PassIds :
    /\ passes[p].pc = "done" /\ passes[p].invalid = "no"
    /\ passes[p].agg = "true" /\ passes[p].calls = <<"setError">> /\ formError

\* C8: fail open: a pass calls setError only if a chunk evaluation of that
\* pass resolved true, on a 2xx response; the form carries the error only if
\* some pass did.
C8_FailOpen ==
  /\ \A p \in PassIds :
       (\E n \in 1..Len(passes[p].calls) : passes[p].calls[n] = "setError")
         => \E k \in ChunkIdsOf(p) :
              /\ chunksOf(p)[k].st = "true"
              /\ chunksOf(p)[k].status >= 200 /\ chunksOf(p)[k].status < 300
  /\ formError => \E p \in PassIds : passes[p].calls = <<"setError">>

C8_SetDespiteFailedChunk ==
  \E p \in PassIds :
    /\ passes[p].calls = <<"setError">>
    /\ \E k \in ChunkIdsOf(p) : chunksOf(p)[k].st = "false" /\ chunksOf(p)[k].status = 404

\* C9: no chunk evaluation issues more than retries + 1 = 4 requests, also
\* when every response is 503 or 504 or every attempt fails at the network
\* level.
C9_AtMostFourRequests ==
  \A p \in PassIds : \A k \in ChunkIdsOf(p) :
    requestsIssued(chunksOf(p)[k]) <= retries + 1

\* C10: a chunk evaluation whose request ended with a non-2xx status that is
\* not retried has resolved false, scored no candidate, and the verdict of
\* its pass is decided by the other chunks.
C10_SoftFailure ==
  \A p \in PassIds : \A k \in ChunkIdsOf(p) :
    LET c == chunksOf(p)[k]
    IN (c.status # 0 /\ ~(c.status >= 200 /\ c.status < 300)
          /\ ~retryOn(c.attempt, FALSE, c.status))
         => /\ c.st = "false"
            /\ c.scoredTitles = 0 /\ c.scoredDescriptions = 0
            /\ passes[p].agg = "true"
                 => \E j \in ChunkIdsOf(p) \ {k} : chunksOf(p)[j].st = "true"
            /\ passes[p].agg = "false"
                 => \A j \in ChunkIdsOf(p) : chunksOf(p)[j].st = "false"

C10_OthersDecide ==
  \E p \in PassIds : \E k \in ChunkIdsOf(p) :
    /\ chunksOf(p)[k].status = 404 /\ chunksOf(p)[k].st = "false"
    /\ passes[p].agg = "true"

chunkSize(c) == c.last - c.first + 1

\* C12: a query result of n candidates is cut into ceil(n / 200) chunks, each
\* of at most 200 candidates and all but the last of exactly 200, which taken
\* in launch order are the query result: every candidate in exactly one
\* chunk, in the original order.
C12_ChunksPartition ==
  \A p \in PassIds :
    LET n == passes[p].queried
        cs == chunksOf(p)
    IN n # Absent =>
         /\ Len(cs) * chunk >= n /\ Len(cs) * chunk < n + chunk
         /\ \A k \in 1..Len(cs) :
              /\ chunkSize(cs[k]) >= 1 /\ chunkSize(cs[k]) <= chunk
              /\ k < Len(cs) => chunkSize(cs[k]) = chunk
              /\ cs[k].first = (IF k = 1 THEN 1 ELSE cs[k - 1].last + 1)
         /\ Len(cs) > 0 => cs[Len(cs)].last = n

C12_ThreeChunks ==
  \E p \in PassIds :
    /\ passes[p].queried > 2 * chunk
    /\ Len(chunksOf(p)) = 3
    /\ chunkSize(chunksOf(p)[1]) = chunk /\ chunkSize(chunksOf(p)[2]) = chunk
    /\ chunkSize(chunksOf(p)[3]) = passes[p].queried - 2 * chunk

Keys == {"TitleSimilarityIndex", "DescriptionSimilarityIndex"}
defaultOf(key) ==
  IF key = "TitleSimilarityIndex" THEN DefaultTitleSimilarityIndex
  ELSE DefaultDescriptionSimilarityIndex
indexOf(ps, key) ==
  IF key = "TitleSimilarityIndex" THEN ps.titleSimilarityIndex
  ELSE ps.descriptionSimilarityIndex

\* C13: the step in which a pass obtains a threshold gives it the value the
\* store then holds; when the key is absent at that step the value is the
\* default (0.95, 0.85), which the step has stored.
C13_DefaultMaterialized ==
  [][\A p \in PassIds : \A key \in Keys :
       (indexOf(passes[p], key) = Absent /\ indexOf(passes'[p], key) # Absent)
         => /\ indexOf(passes'[p], key) = store'[key]
            /\ store[key] = Absent => indexOf(passes'[p], key) = defaultOf(key)]_vars

C13_ReadAfterMaterialized ==
  \E p, q \in PassIds :
    /\ p # q /\ passes[p].pc = "query" /\ passes[q].pc = "query"
    /\ \A key \in Keys : /\ store[key] = defaultOf(key)
                          /\ indexOf(passes[p], key) = defaultOf(key)
                          /\ indexOf(passes[q], key) = defaultOf(key)

\* C14: a threshold the store holds, whatever its value in [0,1], is never
\* overwritten by a pass and is the value the pass obtains.
C14_StoredNeverOverwritten ==
  [][\A key \in Keys :
       store[key] # Absent
         => /\ store'[key] = store[key]
            /\ \A p \in PassIds :
                 (indexOf(passes[p], key) = Absent /\ indexOf(passes'[p], key) # Absent)
                   => indexOf(passes'[p], key) = store[key]]_vars

\* C15: a pass whose title and description are both empty after the fallback
\* to the live record ends there, and has read or written no threshold, run
\* no query, launched no chunk evaluation and called neither setError nor
\* clearError.
C15_NothingToValidate ==
  \A p \in PassIds :
    /\ ( /\ passes[p].pc \notin {"idle", "getTitle", "getDescription"}
         /\ ~Truthy(passes[p].title) /\ ~Truthy(passes[p].description) )
       => passes[p].pc = "done" /\ passes[p].outcome = "noop"
    /\ passes[p].outcome = "noop"
       => /\ \A key \in Keys : indexOf(passes[p], key) = Absent
          /\ store \in DefaultStores
          /\ passes[p].queried = Absent /\ passes[p].chunks = <<>>
          /\ passes[p].agg = "none"
          /\ passes[p].calls = <<>> /\ ~formError

C15_NoopPass ==
  \E p \in PassIds :
    /\ passes[p].pc = "done" /\ passes[p].outcome = "noop"
    /\ ~Truthy(passes[p].title) /\ ~Truthy(passes[p].description)

C17_NoPassOnSavedResetUnloaded ==
  [][(OnSaved \/ OnReset \/ OnUnloaded)
       => /\ nPasses' = nPasses /\ passes' = passes
          /\ timers' = timers /\ _timeout' = _timeout /\ nTimers' = nTimers]_vars

C17_SavedWithoutPass ==
  /\ record.id = SavedId /\ Truthy(record.title)
  /\ nPasses = 0 /\ timers # {}

\* C18: a failed candidate query ends its pass at once, with no chunk
\* launched, no setError or clearError call and the form's error state as it
\* was, and a pass that has ended stays ended: it issues no query, launches
\* no chunk and calls neither setError nor clearError afterwards.
C18_QueryFailureAborts ==
  [][\A p \in PassIds :
       /\ QueryFails(p)
            => /\ passes'[p].pc = "done" /\ passes'[p].queried = Absent
               /\ passes'[p].chunks = <<>> /\ passes'[p].calls = <<>>
               /\ formError' = formError
       /\ passes[p].pc = "done"
            => /\ passes'[p].pc = "done" /\ passes'[p].queried = passes[p].queried
               /\ Len(passes'[p].chunks) = Len(passes[p].chunks)
               /\ passes'[p].calls = passes[p].calls]_vars

C18_QueryFailed ==
  \E p \in PassIds :
    /\ passes[p].pc = "done" /\ passes[p].outcome = "aborted"
    /\ passes[p].descriptionSimilarityIndex # Absent
    /\ passes[p].queried = Absent
    /\ passes[p].chunks = <<>> /\ passes[p].calls = <<>>

\* C19: in every evaluated chunk a title match means that no description was
\* scored, and a chunk with scored descriptions has a non-empty normalized
\* current description, no title match and, when the normalized current
\* title is non-empty, a title scan that went through every filtered
\* candidate first.
C19_TitleScanThenDescriptionScan ==
  \A p \in PassIds : \A k \in 1..Len(chunksOf(p)) :
    LET c == chunksOf(p)[k]
    IN /\ c.titleMatched => c.st = "true" /\ c.scoredDescriptions = 0
       /\ c.scoredDescriptions > 0
            => /\ ~c.titleMatched
               /\ Truthy(normalizeString(passes[p].description))
               /\ Truthy(normalizeString(passes[p].title))
                    => c.scoredTitles = c.filtered

C19_DescriptionScanAfterTitleScan ==
  \E p \in PassIds : \E k \in 1..Len(chunksOf(p)) :
    LET c == chunksOf(p)[k]
    IN /\ c.st = "true" /\ ~c.titleMatched
       /\ c.filtered > 0 /\ c.scoredTitles = c.filtered
       /\ c.scoredDescriptions > 0

\* C20: passes are not serialised.  A step starts or moves at most one pass
\* and leaves every other pass as it was, so none is cancelled; every pass
\* that reaches its set/clear step with no invalid field writes its own
\* verdict to the form, whatever passes started before or after it; and the
\* form's error state changes in no other step, so it is the one written by
\* the pass that reached that step last.
C20_OverlappingPassesRace ==
  [][/\ \A p \in PassIds : \A q \in PassIds \ {p} :
          passes'[p] # passes[p] => passes'[q] = passes[q]
     /\ \A p \in PassIds :
          (passes[p].pc = "gate" /\ passes'[p].pc = "done" /\ passes'[p].invalid = "no")
            => /\ passes'[p].calls # <<>>
               /\ formError' = (passes[p].agg = "true")
     /\ formError' # formError
          => \E p \in PassIds : passes[p].pc = "gate" /\ passes'[p].pc = "done"]_vars

C20_OlderPassWroteLast ==
  /\ nPasses = 2
  /\ \A p \in {1, 2} : passes[p].pc = "done" /\ passes[p].invalid = "no"
  /\ passes[1].outcome # passes[2].outcome
  /\ formError = (passes[1].outcome = "set")

\* C21: the aggregate of a pass depends on the outcomes of its chunk
\* evaluations only, not on the order in which they settled: once all have
\* settled it is what getfirstResolvedPromise gives for these outcomes when
\* an evaluation that resolved true settles first.
C21_OrderIndependent ==
  \A p \in PassIds :
    ( /\ passes[p].agg # "none"
      /\ \A k \in ChunkIdsOf(p) : Settled(chunksOf(p)[k]) )
      => passes[p].agg = getfirstResolvedPromise("none", chunksOf(p))

\* C22: when a host promise that can settle settles, every request gets a
\* response or a network error and every retry timer fires, a pass that has
\* started eventually finishes with every chunk evaluation it launched
\* settled.
C22_PassFinishes ==
  \A p \in PassIds :
    (passes[p].pc # "idle")
      ~> (passes[p].pc = "done" /\ \A k \in ChunkIdsOf(p) : Settled(chunksOf(p)[k]))

\* C23: over a store that starts without thresholds, passes that overlap
\* in reading a key as absent and writing its default all obtain the default
\* and leave it in the store: a pass that has a threshold has the value the
\* store holds, which is the default, and so has every other such pass.
C23_RacingDefaultWrites ==
  \A key \in Keys : \A p \in PassIds :
    indexOf(passes[p], key) # Absent
      => /\ indexOf(passes[p], key) = defaultOf(key)
         /\ store[key] = defaultOf(key)

C23_SecondWriterPending ==
  \E p, q \in PassIds :
    /\ p # q
    /\ passes[p].pc = "query" /\ indexOf(passes[p], "DescriptionSimilarityIndex") # Absent
    /\ passes[q].pc = "descSet"
    /\ store.DescriptionSimilarityIndex = DefaultDescriptionSimilarityIndex

\* C24: normalizeString is idempotent: normalizing the normalized title of
\* a pass gives the normalized title again.
C24_Idempotent ==
  \A p \in PassIds :
    passes[p].pc # "idle"
      => normalizeString(normalizeString(passes[p].title)) = normalizeString(passes[p].title)

\* C25: a chunk evaluation whose batch request was answered 2xx resolves
\* true when, among the work items of the response other than the current
\* record, one has a normalized title scoring at least the title threshold
\* against a non-empty normalized current title, or a normalized description
\* scoring at least the description threshold against a non-empty normalized
\* current description; otherwise it resolves false.
C25_ChunkVerdict ==
  \A p \in PassIds : \A k \in ChunkIdsOf(p) :
    LET c == chunksOf(p)[k]
        others == SelectSeq(c.value, LAMBDA w : w.id.value # passes[p].id.value)
        title == normalizeString(passes[p].title)
        description == normalizeString(passes[p].description)
        duplicate ==
          \/ /\ Truthy(title)
             /\ \E j \in 1..Len(others) :
                  diceAtLeast(title, normalizeString(others[j].title),
                              passes[p].titleSimilarityIndex)
          \/ /\ Truthy(description)
             /\ \E j \in 1..Len(others) :
                  diceAtLeast(description, normalizeString(others[j].description),
                              passes[p].descriptionSimilarityIndex)
    IN (Settled(c) /\ c.status >= 200 /\ c.status < 300)
         => c.st = IF duplicate THEN "true" ELSE "false"

\* C26: once the aggregate of a pass has resolved, the chunk evaluations of
\* the pass that are still in flight go on and settle, and a step of such an
\* evaluation changes neither the aggregate, nor where the pass stands and
\* what it has called, nor the form's error state.
C26_LateOutcomesIgnored ==
  [][\A p \in PassIds :
       passes[p].agg \in {"true", "false"}
         => /\ passes'[p].agg = passes[p].agg
            /\ passes'[p].chunks # passes[p].chunks
                 => /\ Len(passes'[p].chunks) = Len(passes[p].chunks)
                    /\ passes'[p].pc = passes[p].pc
                    /\ passes'[p].calls = passes[p].calls
                    /\ passes'[p].outcome = passes[p].outcome
                    /\ formError' = formError]_vars

C26_FailedAfterSet ==
  \E p \in PassIds :
    /\ passes[p].pc = "done" /\ passes[p].outcome = "set" /\ formError
    /\ \E k \in ChunkIdsOf(p) : chunksOf(p)[k].st = "rejected"
    /\ \E k \in ChunkIdsOf(p) : chunksOf(p)[k].st = "false"

\* C27, as stated: a pass uses the title and the description it was given,
\* and for each that is absent or empty the value the record had when the
\* pass started.
C27_UsesRecordAtStart ==
  \A p \in PassIds :
    /\ passes[p].pc \notin {"idle", "getTitle"}
         => passes[p].title = IF Truthy(passes[p].args[1]) THEN passes[p].args[1]
                              ELSE passes[p].atStart[1]
    /\ passes[p].pc \notin {"idle", "getTitle", "getDescription"}
         => passes[p].description = IF Truthy(passes[p].args[2]) THEN passes[p].args[2]
                                    ELSE passes[p].atStart[2]

\* C27, amended: a pass uses the title and the description it was given;
\* for each that is absent or empty it uses the value the record has at the
\* step in which its read of that field is answered, the title first; and
\* the values it has obtained do not change afterwards.
C27_UsesRecordAtRead ==
  [][\A p \in PassIds :
       /\ (passes'[p].pc # "idle" /\ Truthy(passes'[p].args[1]))
            => passes'[p].title = passes'[p].args[1]
       /\ (passes'[p].pc # "idle" /\ Truthy(passes'[p].args[2]))
            => passes'[p].description = passes'[p].args[2]
       /\ (passes[p].pc = "getTitle" /\ passes'[p].pc # "getTitle")
            => passes'[p].title = record.title
       /\ (passes[p].pc = "getDescription" /\ passes'[p].pc # "getDescription")
            => passes'[p].description = record.description
       /\ passes[p].pc \notin {"idle", "getTitle"}
            => passes'[p].title = passes[p].title
       /\ passes[p].pc \notin {"idle", "getTitle", "getDescription"}
            => passes'[p].description = passes[p].description]_vars

C27_ReadAfterLaterEdit ==
  \E p \in PassIds :
    /\ passes[p].origin = "timer"
    /\ Truthy(passes[p].args[1]) /\ passes[p].args[2] = undefined
    /\ passes[p].pc \notin {"idle", "getTitle", "getDescription"}
    /\ passes[p].title = passes[p].args[1]
    /\ passes[p].description = DescBaz /\ passes[p].atStart[2] # DescBaz

\* C28: a form-loaded, form-refreshed, form-saved, form-reset or
\* form-unloaded event leaves the pending deadline, its handle and the values
\* it captured as they were: the deadline is still there to fire afterwards.
C28_DeadlineSurvivesFormEvents ==
  [][(OnLoaded(Records) \/ OnRefreshed(Records) \/ OnSaved \/ OnReset \/ OnUnloaded)
       => timers' = timers /\ _timeout' = _timeout /\ nTimers' = nTimers]_vars

C28_FiredAfterLoad ==
  \E p, q \in PassIds :
    /\ p < q
    /\ passes[p].origin \in {"loaded", "refreshed"}
    /\ passes[q].origin = "timer"
    /\ passes[q].args[1] = TitleBar /\ passes[q].atStart[1] = TitleFoo

\* C29: a field-change event that carries neither a non-empty title nor a
\* non-empty description arms no deadline, cancels none and starts no pass:
\* the pending deadline, its handle and its captured values stay as they were.
C29_EmptyEventLeavesDeadline ==
  [][FieldChanged({undefined, <<>>}, {undefined, <<>>})
       => /\ timers' = timers /\ _timeout' = _timeout /\ nTimers' = nTimers
          /\ passes' = passes /\ nPasses' = nPasses]_vars

C29_ClearedWhileDeadlinePending ==
  /\ nPasses = 0
  /\ record.title = <<>> /\ record.description = DescBaz
  /\ \E t \in timers : t.title = TitleBar /\ t.description = DescBaz

\* C30: a pass that aborts (a threshold read or write fails, the query
\* fails, or the aggregate is rejected) has called neither setError nor
\* clearError, and the step that aborts it, like every later step of its
\* chunk evaluations, leaves the form's error state as it was.
C30_AbortLeavesError ==
  [][\A p \in PassIds :
       passes'[p].outcome = "aborted"
         => /\ passes'[p].calls = <<>>
            /\ passes'[p] # passes[p] => formError' = formError]_vars

C30_ErrorStaysAfterAbort ==
  \E p, q \in PassIds :
    /\ p < q
    /\ passes[p].pc = "done" /\ passes[p].outcome = "set"
    /\ passes[q].pc = "done" /\ passes[q].outcome = "aborted"
    /\ passes[q].agg = "rejected"
    /\ formError

\* C31: a pass whose query returned no candidate has launched no chunk
\* evaluation, its aggregate is resolved false in the step in which the
\* query resolves, so the pass is at its gate or past it, and when it has
\* finished it has called clearError, and nothing else, unless the form
\* reported invalid fields, in which case it has called nothing.
C31_NoCandidatesClears ==
  \A p \in PassIds :
    passes[p].queried = 0
      => /\ passes[p].chunks = <<>>
         /\ passes[p].agg = "false"
         /\ passes[p].pc \in {"gate", "done"}
         /\ passes[p].pc = "done"
              => passes[p].calls = IF passes[p].invalid = "yes" THEN <<>>
                                   ELSE <<"clearError">>

C31_ClearedWithoutCandidates ==
  \E p \in PassIds :
    /\ passes[p].queried = 0 /\ passes[p].pc = "done"
    /\ passes[p].invalid = "no" /\ passes[p].calls = <<"clearError">>
    /\ ~formError

====
